---- MODULE Spec2Model ----
(* Stream-identity resolution and remapping of nlxdftools.NlXdf:             *)
(* metadata normalisation, neurolive-id classification with collision        *)
(* suffixing, and the renaming of the stream-indexed collections on load.    *)
EXTENDS Integers, Sequences, FiniteSets, TLC

(***************************************************************************)
(* Strings are sequences of one-character strings, so that concatenation,   *)
(* prefix tests, lower-casing and ordering are computed and not assumed.    *)
(***************************************************************************)
\* The characters in code-point order (the order Python compares str by).
Alphabet ==
    <<"-",".","0","1","2","3","4","5","6","7","8","9","A",
      "B","C","D","E","F","G","H","I","J","K","L","M","N",
      "O","P","Q","R","S","T","U","V","W","X","Y","Z","_",
      "a","b","c","d","e","f","g","h","i","j","k","l","m",
      "n","o","p","q","r","s","t","u","v","w","x","y","z">>

Chars == {Alphabet[i] : i \in 1..Len(Alphabet)}

\* The rank of a character in code-point order.
Ord == [c \in Chars |-> CHOOSE i \in 1..Len(Alphabet) : Alphabet[i] = c]

\* str.lower() on one character: "A".."Z" sit 27 places before "a".."z".
lower_char ==
    [c \in Chars |-> IF Ord[c] \in Ord["A"]..Ord["Z"] THEN Alphabet[Ord[c] + 27] ELSE c]

lower(s) == [i \in 1..Len(s) |-> lower_char[s[i]]]

startswith(s, prefix) ==
    Len(s) >= Len(prefix) /\ SubSeq(s, 1, Len(prefix)) = prefix

\* str < str, lexicographic by code point.
RECURSIVE str_lt(_, _)
str_lt(a, b) ==
    IF a = <<>> THEN b # <<>>
    ELSE IF b = <<>> THEN FALSE
    ELSE IF a[1] = b[1] THEN str_lt(Tail(a), Tail(b))
    ELSE Ord[a[1]] < Ord[b[1]]

Digits == <<"0","1","2","3","4","5","6","7","8","9">>

\* str(n) of a non-negative integer: its decimal digits.
RECURSIVE str(_)
str(n) == IF n < 10 THEN <<Digits[n + 1]>> ELSE str(n \div 10) \o <<Digits[(n % 10) + 1]>>

\* String literals of the source.
s_eeg == <<"e","e","g">>
s_EEG == <<"E","E","G">>
s_marker == <<"m","a","r","k","e","r">>
s_event == <<"e","v","e","n","t">>
s_gaze == <<"g","a","z","e">>
s_Gaze == <<"G","a","z","e">>
s_data == <<"d","a","t","a">>
s_control == <<"c","o","n","t","r","o","l">>
s_markers == <<"m","a","r","k","e","r","s">>
s_Markers == <<"M","a","r","k","e","r","s">>
s_misc == <<"m","i","s","c">>
s_TimestampStream == <<"T","i","m","e","s","t","a","m","p","S","t","r","e","a","m">>
s_CameraRecordingTime == <<"C","a","m","e","r","a","R","e","c","o","r","d","i","n","g","T","i","m","e">>
s_audio == <<"a","u","d","i","o">>
s_pupil == <<"p","u","p","i","l">>
s_Test == <<"T","e","s","t">>
s_relay == <<"_","r","e","l","a","y","_">>
s_ts_marker == <<"t","s","-","m","a","r","k","e","r">>
s_ts_video == <<"t","s","-","v","i","d","e","o">>
s_ts_audio == <<"t","s","-","a","u","d","i","o">>
s_pl == <<"p","l","-">>
s_dash_event == <<"-","e","v","e","n","t">>
s_dash_gaze == <<"-","g","a","z","e">>
s_test_ref == <<"t","e","s","t","-","r","e","f">>
s_test_dash == <<"t","e","s","t","-">>
s_test == <<"t","e","s","t">>
s_test_ctrl == <<"t","e","s","t","-","c","t","r","l">>
s_dash_markers == <<"-","m","a","r","k","e","r","s">>
s_dash_relay == <<"-","r","e","l","a","y">>
s_dash == <<"-">>
s_neurolive == <<"n","e","u","r","o","l","i","v","e">>
s_bobby == <<"b","o","b","b","y">>

\* Class attribute NlXdf.hostname_device_mapper.
hostname_device_mapper ==
    (<<"D","E","S","K","T","O","P","-","3","R","7","C","1","P","H">> :> <<"e","e","g","-","a">>)
    @@ (<<"D","E","S","K","T","O","P","-","2","T","I","6","R","B","U">> :> <<"e","e","g","-","b">>)
    @@ (<<"D","E","S","K","T","O","P","-","M","N","7","K","6","R","M">> :> <<"e","e","g","-","c">>)
    @@ (<<"D","E","S","K","T","O","P","-","U","R","R","V","9","8","M">> :> <<"e","e","g","-","d">>)
    @@ (<<"D","E","S","K","T","O","P","-","D","A","T","O","E","V","U">> :> <<"e","e","g","-","e">>)
    @@ (<<"T","A","B","L","E","T","-","9","I","4","4","R","1","A","R">> :> <<"e","e","g","-","f">>)
    @@ (<<"D","E","S","K","T","O","P","-","S","L","A","K","F","Q","E">> :> <<"e","e","g","-","g">>)
    @@ (<<"D","E","S","K","T","O","P","-","6","F","J","T","J","J","N">> :> <<"e","e","g","-","h">>)
    @@ (<<"D","E","S","K","T","O","P","-","H","D","O","E","S","K","S">> :> <<"e","e","g","-","i">>)
    @@ (<<"D","E","S","K","T","O","P","-","L","I","A","3","G","0","9">> :> <<"e","e","g","-","j">>)
    @@ (<<"D","E","S","K","T","O","P","-","V","6","7","7","9","I","4">> :> <<"e","e","g","-","k">>)
    @@ (<<"D","E","S","K","T","O","P","-","P","L","V","2","A","7","L">> :> <<"e","e","g","-","l">>)
    @@ (<<"D","E","S","K","T","O","P","-","S","S","S","O","E","1","L">> :> <<"e","e","g","-","m">>)
    @@ (<<"D","E","S","K","T","O","P","-","R","M","1","6","J","6","7">> :> <<"e","e","g","-","n">>)
    @@ (<<"D","E","S","K","T","O","P","-","N","2","R","A","6","8","S">> :> <<"e","e","g","-","o">>)
    @@ (<<"D","E","S","K","T","O","P","-","S","5","9","7","Q","2","1">> :> <<"e","e","g","-","p">>)
    @@ (<<"T","A","B","L","E","T","-","0","6","K","1","P","L","D","4">> :> <<"e","e","g","-","q">>)
    @@ (<<"D","E","S","K","T","O","P","-","M","K","0","G","Q","F","M">> :> <<"e","e","g","-","r">>)
    @@ (<<"D","E","S","K","T","O","P","-","7","G","V","3","R","J","U">> :> <<"e","e","g","-","s">>)
    @@ (<<"D","E","S","K","T","O","P","-","S","5","A","1","P","P","K">> :> <<"e","e","g","-","t">>)
    @@ (<<"T","A","B","L","E","T","-","3","B","S","4","N","T","P","2">> :> <<"e","e","g","-","u">>)
    @@ (<<"D","E","S","K","T","O","P","-","Q","G","4","C","N","E","V">> :> <<"e","e","g","-","v">>)
    @@ (<<"D","E","S","K","T","O","P","-","O","A","F","4","O","C","M">> :> <<"e","e","g","-","w">>)
    @@ (<<"T","A","B","L","E","T","-","4","7","T","C","F","C","E","B">> :> <<"e","e","g","-","c","s","-","v">>)
    @@ (<<"C","G","S","-","P","C","D","-","2","6","0","9","8">> :> <<"t","a","b","a","r","n","a","k">>)
    @@ (<<"C","G","S","-","P","C","L","-","3","8","9","2","8">> :> <<"l","a","u","r","a">>)
    @@ (<<"c","g","s","-","m","a","c","l","-","3","9","0","3","4",".","c","a","m","p","u","s",".","g","o","l","d","s","m","i","t","h","s",".","a","c",".","u","k">> :> <<"m","i","r","k","o">>)
    @@ (<<"k","a","s","s","i","a">> :> <<"j","a","m","i","e","f">>)

\* Class attribute NlXdf.metadata_mapper.
metadata_mapper == [type |-> (s_EEG :> s_eeg)]

\* Class attribute NlXdf.channel_metadata_mapper; channel values are only
\* compared for equality and are kept as plain strings.
channel_label_mapper ==
    ("0" :> "Fp1") @@ ("1" :> "Fpz") @@ ("2" :> "Fp2") @@ ("3" :> "F7")
    @@ ("4" :> "F3") @@ ("5" :> "Fz") @@ ("6" :> "F4") @@ ("7" :> "F8")
    @@ ("8" :> "FC5") @@ ("9" :> "FC1") @@ ("10" :> "FC2") @@ ("11" :> "FC6")
    @@ ("12" :> "M1") @@ ("13" :> "T7") @@ ("14" :> "C3") @@ ("15" :> "Cz")
    @@ ("16" :> "C4") @@ ("17" :> "T8") @@ ("18" :> "M2") @@ ("19" :> "CP5")
    @@ ("20" :> "CP1") @@ ("21" :> "CP2") @@ ("22" :> "CP6") @@ ("23" :> "P7")
    @@ ("24" :> "P3") @@ ("25" :> "Pz") @@ ("26" :> "P4") @@ ("27" :> "P8")
    @@ ("28" :> "POz") @@ ("29" :> "O1") @@ ("30" :> "Oz") @@ ("31" :> "O2")
    @@ ("32" :> "Resp") @@ ("67" :> "CPz") @@ ("33" :> "trigger") @@ ("34" :> "counter")

channel_type_mapper ==
    ("ref" :> "eeg") @@ ("aux" :> "misc") @@ ("bip" :> "misc")
    @@ ("trigger" :> "misc") @@ ("counter" :> "misc") @@ ("trg" :> "stim")

\* A type table in which a replacement is itself a key.
channel_metadata_mapper_chained ==
    [label |-> channel_label_mapper, type |-> ("aux" :> "ref") @@ channel_type_mapper]

channel_metadata_mapper ==
    [label |-> channel_label_mapper, type |-> channel_type_mapper]

\* Hosts on which a sync test counts as the reference.
reference_hosts == {s_neurolive, s_bobby}

\* Stream names, hostnames and source ids used as inputs.
n_Pupil1 == <<"P","u","p","i","l","1">>
n_pupil == <<"p","u","p","i","l">>
n_Test1 == <<"T","e","s","t","1">>
n_test1 == <<"t","e","s","t","1">>
n_relay_mic == <<"_","r","e","l","a","y","_","m","i","c">>
n_x == <<"x">>
h_eeg_a == <<"D","E","S","K","T","O","P","-","3","R","7","C","1","P","H">>
h_unknown == <<"u","n","k","n","o","w","n","-","h","o","s","t">>
h_lab_pc == <<"l","a","b","-","p","c">>
sid_123 == <<"1","2","3">>
d_eeg_a_2 == <<"e","e","g","-","a","-","2">>

(***************************************************************************)
(* A metadata row is [stream_id, type, name, hostname, source_id]; stream_id *)
(* is the row label (row.name) of the table indexed by raw stream id.        *)
(* An operation that can raise returns a record with field exc: "none" or    *)
(* the name of the exception.                                                *)
(***************************************************************************)

\* dict-style value replacement of DataFrame.replace for one column:
\* a value that is a key of the column's table is replaced, any other is kept.
replace(table, v) == IF v \in DOMAIN table THEN table[v] ELSE v

\* _parse_metadata: lowercase the type, then the metadata_mapper fix-ups.
normalize_type(type) == replace(metadata_mapper.type, lower(type))

normalize_row(row) == [row EXCEPT !.type = normalize_type(row.type)]

normalize_metadata(rows) == [i \in 1..Len(rows) |-> normalize_row(rows[i])]

\* The sync-test branch of make_nl_id.
test_nl_id(row, hmap) ==
    IF row.hostname \in reference_hosts THEN s_test_ref
    ELSE IF row.hostname \in DOMAIN hmap THEN s_test_dash \o hmap[row.hostname]
    ELSE s_test

\* A pupil branch that lets a pupil-named stream of another type reach the
\* later rules.
pupil_nl_id_falls_through(row, fallback) ==
    IF lower(row.type) = s_event THEN s_pl \o row.source_id \o s_dash_event
    ELSE IF lower(row.type) = s_gaze THEN s_pl \o row.source_id \o s_dash_gaze
    ELSE IF row.type = s_control THEN s_test_ctrl
    ELSE IF lower(row.type) = s_markers THEN fallback \o s_dash_markers
    ELSE fallback

\* The pupil branch of make_nl_id: nl_id keeps its fallback value unless the
\* type is event or gaze.
pupil_nl_id(row, fallback) ==
    IF lower(row.type) = s_event THEN s_pl \o row.source_id \o s_dash_event
    ELSE IF lower(row.type) = s_gaze THEN s_pl \o row.source_id \o s_dash_gaze
    ELSE fallback

\* make_nl_id up to the counter update: the id before collision suffixing.
\* hostname_map[row['hostname']] raises KeyError for a hostname that is no key.
base_nl_id(row, hmap) ==
    LET nl_id == str(row.stream_id)
        ok(id) == [exc |-> "none", nl_id |-> id]
    IN  IF lower(row.type) = s_eeg
            THEN IF row.hostname \in DOMAIN hmap
                     THEN ok(hmap[row.hostname])
                     ELSE [exc |-> "KeyError", nl_id |-> <<>>]
        ELSE IF row.name = s_TimestampStream THEN ok(s_ts_marker)
        ELSE IF row.name = s_CameraRecordingTime THEN ok(s_ts_video)
        ELSE IF row.type = s_marker /\ row.name = s_audio THEN ok(s_ts_audio)
        ELSE IF startswith(lower(row.name), s_pupil) THEN ok(pupil_nl_id(row, nl_id))
        ELSE IF row.type = s_data /\ startswith(row.name, s_Test)
            THEN ok(test_nl_id(row, hmap))
        ELSE IF row.type = s_control THEN ok(s_test_ctrl)
        ELSE IF lower(row.type) = s_markers THEN ok(nl_id \o s_dash_markers)
        ELSE IF startswith(row.name, s_relay) THEN ok(nl_id \o s_dash_relay)
        ELSE ok(nl_id)

\* collections.Counter: a function from the ids seen to their counts.
Counter == << >>

count(counter, id) == IF id \in DOMAIN counter THEN counter[id] ELSE 0

\* A counter that records an id as seen once, however often it was seen.
update_overwrites(counter, id) ==
    [k \in DOMAIN counter \cup {id} |-> IF k = id THEN 1 ELSE counter[k]]

update(counter, id) ==
    [k \in DOMAIN counter \cup {id} |->
        count(counter, k) + (IF k = id THEN 1 ELSE 0)]

\* A collision suffix that is never appended.
unique_nl_id_unsuffixed(nl_id, n) == nl_id

\* The collision suffix: the id is kept the first time it is seen and gets
\* "-<count>" from the second time on.
unique_nl_id(nl_id, n) == IF n > 1 THEN nl_id \o s_dash \o str(n) ELSE nl_id

\* make_nl_id(row, unique_id_counter, hostname_map); the counter is updated
\* in place in the source and returned here.
make_nl_id(row, unique_id_counter, hmap) ==
    LET base == base_nl_id(row, hmap)
        counter == update(unique_id_counter, base.nl_id)
    IN  IF base.exc # "none"
            THEN [exc |-> base.exc, nl_id |-> <<>>, counter |-> unique_id_counter]
            ELSE [exc |-> "none",
                  nl_id |-> unique_nl_id(base.nl_id, counter[base.nl_id]),
                  counter |-> counter]

\* df.apply(make_nl_id, axis='columns'): the rows in table order, one counter.
RECURSIVE apply_make_nl_id(_, _, _)
apply_make_nl_id(rows, unique_id_counter, hmap) ==
    IF Len(rows) = 0 THEN [exc |-> "none", nl_ids |-> <<>>]
    ELSE LET r == make_nl_id(Head(rows), unique_id_counter, hmap)
             rest == apply_make_nl_id(Tail(rows), r.counter, hmap)
         IN  IF r.exc # "none" THEN [exc |-> r.exc, nl_ids |-> <<>>]
             ELSE IF rest.exc # "none" THEN rest
             ELSE [exc |-> "none", nl_ids |-> <<r.nl_id>> \o rest.nl_ids]

\* _create_nl_ids(df): a fresh counter for every call.
_create_nl_ids(df_rows, hmap) == apply_make_nl_id(df_rows, Counter, hmap)

\* Ascending stable sort of seq by the parallel sequence of string keys
\* (list.sort, sorted(dict.items()), DataFrame.sort_index): the element at
\* index i goes to position rank(keys, i).
rank(keys, i) ==
    1 + Cardinality({j \in 1..Len(keys) :
                        str_lt(keys[j], keys[i]) \/ (keys[j] = keys[i] /\ j < i)})

sort_by(seq, keys) ==
    [p \in 1..Len(seq) |-> seq[CHOOSE i \in 1..Len(seq) : rank(keys, i) = p]]

\* df.set_index('nl_id', verify_integrity=True) raises ValueError on a
\* duplicated id.
has_duplicates(ids) == \E i, j \in 1..Len(ids) : i < j /\ ids[i] = ids[j]

indexed_row(row, id) ==
    [nl_id |-> id, stream_id |-> row.stream_id, type |-> row.type,
     name |-> row.name, hostname |-> row.hostname, source_id |-> row.source_id]

\* _parse_metadata(data) with nl_id_as_index=True: normalise, create the ids,
\* make them the index and sort by it.
_parse_metadata(data, hmap) ==
    LET df_rows == normalize_metadata(data)
        ids == _create_nl_ids(df_rows, hmap)
        rows == [i \in 1..Len(df_rows) |-> indexed_row(df_rows[i], ids.nl_ids[i])]
    IN  IF ids.exc # "none" THEN [exc |-> ids.exc, table |-> <<>>]
        ELSE IF has_duplicates(ids.nl_ids) THEN [exc |-> "ValueError", table |-> <<>>]
        ELSE [exc |-> "none", table |-> sort_by(rows, ids.nl_ids)]

\* _parse_channel_metadata on one channel table, given as the columns it
\* has and the value of one row: a missing label column is copied from the
\* index column, then the channel_metadata_mapper fix-ups are applied.
_parse_channel_metadata(ch) ==
    LET with_label ==
            IF "index" \in ch.columns /\ "label" \notin ch.columns
                THEN [ch EXCEPT !.columns = @ \cup {"label"}, !.label = ch.index]
                ELSE ch
    IN  [with_label EXCEPT
            !.label = IF "label" \in with_label.columns
                          THEN replace(channel_metadata_mapper.label, @) ELSE @,
            !.type = IF "type" \in with_label.columns
                         THEN replace(channel_metadata_mapper.type, @) ELSE @]

(***************************************************************************)
(* Stream-indexed collections. A key is a Python value: the int n is       *)
(* [int |-> n] and the str s is [str |-> s], so that an int never equals a *)
(* str. A collection is [shape, items] with shape "None", "list", "dict"   *)
(* or "table" and items a sequence of [key, val]; val is the payload of a  *)
(* dict entry or table row, and empty in a list.                           *)
(***************************************************************************)
Int_(n) == [int |-> n]
Str_(s) == [str |-> s]

None == [shape |-> "None", items |-> <<>>]

\* A lookup that ignores the stream id and takes the first index key.
first_nl_id(metadata, stream_id) ==
    IF Len(metadata) = 0 THEN [exc |-> "IndexError", nl_id |-> Str_(<<>>)]
    ELSE [exc |-> "none", nl_id |-> Str_(metadata[1].nl_id)]

\* A lookup that falls back to the raw id as a string when no row matches.
nl_id_or_raw(metadata, stream_id) ==
    LET rows == {i \in 1..Len(metadata) : Int_(metadata[i].stream_id) = stream_id}
    IN  IF rows = {} THEN [exc |-> "none", nl_id |-> Str_(str(stream_id.int))]
        ELSE [exc |-> "none",
              nl_id |-> Str_(metadata[CHOOSE i \in rows : \A j \in rows : i <= j].nl_id)]

\* _stream_id_to_nl_id: the first index key of the rows whose stream_id
\* column equals stream_id; [0] on an empty index raises IndexError.
_stream_id_to_nl_id(metadata, stream_id) ==
    LET rows == {i \in 1..Len(metadata) : Int_(metadata[i].stream_id) = stream_id}
    IN  IF rows = {} THEN [exc |-> "IndexError", nl_id |-> Str_(<<>>)]
        ELSE [exc |-> "none",
              nl_id |-> Str_(metadata[CHOOSE i \in rows : \A j \in rows : i <= j].nl_id)]

\* The items with every key replaced by its nl_id, in the given order.
renamed(metadata, items) ==
    [i \in 1..Len(items) |->
        [key |-> _stream_id_to_nl_id(metadata, items[i].key).nl_id, val |-> items[i].val]]

raises(metadata, items) ==
    \E i \in 1..Len(items) : _stream_id_to_nl_id(metadata, items[i].key).exc # "none"

\* d[key] = val on an insertion-ordered dict.
dict_set(d, key, val) ==
    IF \E i \in 1..Len(d) : d[i].key = key
        THEN [i \in 1..Len(d) |-> IF d[i].key = key THEN [key |-> key, val |-> val] ELSE d[i]]
        ELSE Append(d, [key |-> key, val |-> val])

\* The dict a comprehension builds from the items, left to right.
RECURSIVE dict_of(_)
dict_of(items) ==
    IF Len(items) = 0 THEN <<>>
    ELSE dict_set(dict_of(SubSeq(items, 1, Len(items) - 1)),
                  items[Len(items)].key, items[Len(items)].val)

sorted(items) == sort_by(items, [i \in 1..Len(items) |-> items[i].key.str])

map_list(metadata, items) == sorted(renamed(metadata, items))

\* A dict that is rebuilt under the new keys and left in insertion order.
map_dict_unsorted(metadata, items) == dict_of(renamed(metadata, items))

map_dict(metadata, items) == sorted(dict_of(renamed(metadata, items)))

map_table(metadata, items) == sorted(renamed(metadata, items))

\* _map_stream_ids(data), with self._metadata as first argument.
_map_stream_ids(metadata, data) ==
    IF data.shape = "None" THEN [exc |-> "none", data |-> data]
    ELSE IF raises(metadata, data.items) THEN [exc |-> "IndexError", data |-> None]
    ELSE [exc |-> "none",
          data |-> [shape |-> data.shape,
                    items |-> CASE data.shape = "list" -> map_list(metadata, data.items)
                                [] data.shape = "dict" -> map_dict(metadata, data.items)
                                [] data.shape = "table" -> map_table(metadata, data.items)]]

(***************************************************************************)
(* The handle. self is the record of the attributes load reads and writes. *)
(***************************************************************************)
\* The stream-indexed attributes, in the order load remaps them.
StreamIndexed ==
    <<"_loaded_stream_ids", "_channel_metadata", "_footer", "_clock_offsets",
      "_time_series", "_time_stamps">>

ShapeOf ==
    [_loaded_stream_ids |-> "list", _channel_metadata |-> "dict", _footer |-> "table",
     _clock_offsets |-> "dict", _time_series |-> "dict", _time_stamps |-> "dict"]

Unloaded ==
    [loaded |-> FALSE, _metadata |-> <<>>, _loaded_stream_ids |-> None,
     _channel_metadata |-> None, _footer |-> None, _clock_offsets |-> None,
     _time_series |-> None, _time_stamps |-> None]

\* The collection the loader builds for one attribute: an entry per loaded
\* stream, in file order, keyed by raw stream id; the payload names the
\* stream the entry was read from.
raw_collection(shape, ids) ==
    [shape |-> shape,
     items |-> [i \in 1..Len(ids) |->
                  [key |-> Int_(ids[i]), val |-> IF shape = "list" THEN <<>> ELSE str(ids[i])]]]

\* self._load(...) of pyxdftools.Xdf, as load relies on it: it raises
\* XdfAlreadyLoadedError on a loaded handle and NoLoadableStreamsError when no
\* stream of the file matches the selection, both before it stores anything;
\* otherwise it stores the parsed metadata and the collections of the matched
\* streams keyed by raw stream id. extra = [attr, id] adds to attribute attr an
\* entry for stream id, which none of the matched streams has (attr 0: none).
_load(self_, streams, select, channels, extra, hmap) ==
    LET matched == SelectSeq(streams, LAMBDA row : row.stream_id \in select)
        metadata == _parse_metadata(matched, hmap)
        ids(attr) == [i \in 1..Len(matched) |-> matched[i].stream_id]
                         \o (IF extra.attr = attr THEN <<extra.id>> ELSE <<>>)
        coll(attr) == raw_collection(ShapeOf[StreamIndexed[attr]], ids(attr))
    IN  IF self_.loaded THEN [exc |-> "XdfAlreadyLoadedError", self |-> self_]
        ELSE IF Len(matched) = 0 THEN [exc |-> "NoLoadableStreamsError", self |-> self_]
        ELSE IF metadata.exc # "none" THEN [exc |-> metadata.exc, self |-> self_]
        ELSE [exc |-> "none",
              self |-> [loaded |-> TRUE, _metadata |-> metadata.table,
                        _loaded_stream_ids |-> coll(1),
                        _channel_metadata |-> IF channels THEN coll(2) ELSE None,
                        _footer |-> coll(3), _clock_offsets |-> coll(4),
                        _time_series |-> coll(5), _time_stamps |-> coll(6)]]

\* self.<attr> = self._map_stream_ids(self.<attr>) for the attributes in
\* turn; the first exception ends the sequence and leaves the rest as it was.
\* Each call reads self._metadata and its own attribute only, so its outcome
\* is the same whether computed in turn or from the state at entry.
failing(self_, attrs) ==
    {k \in 1..Len(attrs) : _map_stream_ids(self_._metadata, self_[attrs[k]]).exc # "none"}

first_failing(self_, attrs) ==
    IF failing(self_, attrs) = {} THEN Len(attrs) + 1
    ELSE CHOOSE k \in failing(self_, attrs) : \A j \in failing(self_, attrs) : k <= j

remap(self_, attrs) ==
    [exc |-> IF failing(self_, attrs) = {} THEN "none" ELSE "IndexError",
     self |-> [a \in DOMAIN self_ |->
                 IF \E k \in 1..(first_failing(self_, attrs) - 1) : attrs[k] = a
                     THEN _map_stream_ids(self_._metadata, self_[a]).data
                     ELSE self_[a]]]

Recoverable == {"NoLoadableStreamsError", "XdfAlreadyLoadedError"}

load_result(exc, caught, self_) ==
    [op |-> "load", exc |-> exc, caught |-> caught, self |-> self_,
     value |-> IF exc = "none" THEN "self" ELSE ""]

\* A load whose except clause prints and then goes on to the remapping.
load_without_return(outcome) ==
    IF outcome.exc \notin Recoverable \cup {"none"}
        THEN load_result(outcome.exc, "none", outcome.self)
        ELSE LET r == remap(outcome.self, StreamIndexed)
             IN  load_result(r.exc, IF outcome.exc = "none" THEN "none" ELSE outcome.exc,
                             r.self)

\* A load that leaves _time_stamps as the loader stored it.
load_without_time_stamps(outcome) ==
    IF outcome.exc \in Recoverable THEN load_result("none", outcome.exc, outcome.self)
    ELSE IF outcome.exc # "none" THEN load_result(outcome.exc, "none", outcome.self)
    ELSE LET r == remap(outcome.self, SubSeq(StreamIndexed, 1, 5))
         IN  load_result(r.exc, "none", r.self)

\* load, given the outcome of its call of self._load: the two recoverable
\* errors are caught and self is returned; any other exception propagates;
\* on success the stream-indexed attributes are remapped in turn.
load(outcome) ==
    IF outcome.exc \in Recoverable THEN load_result("none", outcome.exc, outcome.self)
    ELSE IF outcome.exc # "none" THEN load_result(outcome.exc, "none", outcome.self)
    ELSE LET r == remap(outcome.self, StreamIndexed)
         IN  load_result(r.exc, "none", r.self)

(***************************************************************************)
(* Inputs and bounds.                                                      *)
(***************************************************************************)
\* Most rows of a metadata table, and the largest raw stream id, when tables
\* are built row by row.
MaxRows == 3
MaxId == 3

\* The device map of a subclass: a second tablet registered for device eeg-a.
lab_device_mapper == hostname_device_mapper @@ (h_lab_pc :> d_eeg_a_2)

\* The classes a handle is an instance of: NlXdf, and a subclass that
\* overrides hostname_device_mapper.
DeviceMaps == [NlXdf |-> hostname_device_mapper, LabXdf |-> lab_device_mapper]

Row(id, type, name, hostname, source_id) ==
    [stream_id |-> id, type |-> type, name |-> name, hostname |-> hostname,
     source_id |-> source_id]

\* Streams of the tables built row by row, as <<type, name, hostname>>: two
\* EEG tablets, a gaze tracker, a sync test and an unclassified stream.
TableStreams ==
    {<<s_eeg, n_x, h_eeg_a>>, <<s_eeg, n_x, h_lab_pc>>, <<s_gaze, n_Pupil1, h_eeg_a>>,
     <<s_data, n_Test1, h_unknown>>, <<s_misc, n_x, h_unknown>>}

\* Rows classified one at a time: every rule of make_nl_id, in both cases.
RuleTypes == {s_eeg, s_EEG, s_marker, s_event, s_gaze, s_Gaze, s_data,
              s_control, s_markers, s_Markers, s_misc}
RuleNames == {s_TimestampStream, s_CameraRecordingTime, s_audio, n_Pupil1,
              n_pupil, n_Test1, n_test1, n_relay_mic, n_x}
RuleHosts == {h_eeg_a, s_neurolive, s_bobby, h_unknown}
RuleIds == {5, 14}

\* The files a handle is opened on, as the stream headers they hold: a gaze
\* tracker, a tablet and an unclassified stream; two streams of one tablet;
\* a tablet that is in no device map and a marker stream.
Files ==
    {<<Row(1, s_gaze, n_Pupil1, h_eeg_a, sid_123), Row(2, s_EEG, n_x, h_eeg_a, sid_123),
       Row(3, s_misc, n_x, h_unknown, sid_123)>>,
     <<Row(2, s_eeg, n_x, h_eeg_a, sid_123), Row(1, s_eeg, n_x, h_eeg_a, sid_123)>>,
     <<Row(1, s_eeg, n_x, h_unknown, sid_123), Row(2, s_Markers, n_x, h_unknown, sid_123)>>}

\* Longest collection handed to _map_stream_ids directly.
MaxLen == 2

\* The raw ids the collections are made of: those of the files' streams.
FileIds == UNION {{f[i].stream_id : i \in 1..Len(f)} : f \in Files}

IdSeqs == UNION {[1..n -> FileIds] : n \in 0..MaxLen}

Distinct(ids) == \A i, j \in 1..Len(ids) : i # j => ids[i] # ids[j]

Collections ==
    {None}
    \cup {raw_collection("list", ids) : ids \in IdSeqs}
    \cup {raw_collection(shape, ids) :
             shape \in {"dict", "table"}, ids \in {s \in IdSeqs : Distinct(s)}}

\* Most normalisation passes over one value.
MaxPasses == 2

\* One-row channel tables: with a label column, and with an index column only.
ChannelValues(table) == DOMAIN table \cup {table[k] : k \in DOMAIN table} \cup {"other"}

Channels ==
    {[columns |-> {"index", "label", "type"}, index |-> "0", label |-> label, type |-> type] :
        label \in ChannelValues(channel_metadata_mapper.label),
        type \in ChannelValues(channel_metadata_mapper.type)}
    \cup {[columns |-> {"index", "type"}, index |-> index, label |-> "", type |-> type] :
        index \in {"0", "33", "trigger"},
        type \in ChannelValues(channel_metadata_mapper.type)}


(***************************************************************************)
(* State.                                                                  *)
(***************************************************************************)
VARIABLES
    cls,            \* the class of the handle
    df,             \* the metadata table handed to the classifier, by raw id
    file,           \* the stream headers of the file the handle is opened on
    self,           \* the handle's attributes
    outcome,        \* what the last call of self._load raised and stored
    arg,            \* the collection last handed to _map_stream_ids directly
    meta_type,      \* a value of the metadata column 'type'
    channel,        \* a one-row channel table
    passes,         \* normalisation passes made over meta_type and channel
    ret             \* the last call and its outcome

classifier_vars == <<cls, df>>
handle_vars == <<file, self, outcome, arg>>
normalizer_vars == <<meta_type, channel, passes>>
vars == <<cls, df, file, self, outcome, arg, meta_type, channel, passes, ret>>

\* self.hostname_device_mapper, the map _create_nl_ids hands to make_nl_id.
hostname_map == DeviceMaps[cls]

NotCalled == [op |-> "none", exc |-> "none"]

NoOutcome == [exc |-> "none", self |-> Unloaded]

NoChannel == [columns |-> {}, index |-> "", label |-> "", type |-> ""]

NoPasses == [metadata |-> 0, channel |-> 0]

ClassifierIdle == cls = "NlXdf" /\ df = <<>>

HandleIdle == file = <<>> /\ self = Unloaded /\ outcome = NoOutcome /\ arg = None

NormalizerIdle == meta_type = <<>> /\ channel = NoChannel /\ passes = NoPasses

(***************************************************************************)
(* Classification of one table.                                            *)
(***************************************************************************)
stream_ids(rows) == {rows[i].stream_id : i \in 1..Len(rows)}

AppendRow ==
    /\ Len(df) < MaxRows
    /\ \E id \in (1..MaxId) \ stream_ids(df), s \in TableStreams :
            df' = Append(df, Row(id, s[1], s[2], s[3], sid_123))
    /\ ret' = NotCalled
    /\ UNCHANGED <<cls, handle_vars, normalizer_vars>>

CreateNlIds ==
    /\ df # <<>>
    /\ ret' = [op |-> "_create_nl_ids"] @@ _create_nl_ids(df, hostname_map)
    /\ UNCHANGED <<classifier_vars, handle_vars, normalizer_vars>>

ParseMetadata ==
    /\ df # <<>>
    /\ ret' = [op |-> "_parse_metadata"] @@ _parse_metadata(df, hostname_map)
    /\ UNCHANGED <<classifier_vars, handle_vars, normalizer_vars>>

InitTable ==
    /\ cls \in DOMAIN DeviceMaps
    /\ df = <<>>
    /\ ret = NotCalled
    /\ HandleIdle
    /\ NormalizerIdle

NextTable == AppendRow \/ CreateNlIds \/ ParseMetadata

SpecTable == InitTable /\ [][NextTable]_vars

InitRule ==
    /\ cls \in DOMAIN DeviceMaps
    /\ \E id \in RuleIds, type \in RuleTypes, name \in RuleNames,
          hostname \in RuleHosts :
            df = <<Row(id, type, name, hostname, sid_123)>>
    /\ ret = NotCalled
    /\ HandleIdle
    /\ NormalizerIdle

NextRule == CreateNlIds \/ ParseMetadata

SpecRule == InitRule /\ [][NextRule]_vars

(***************************************************************************)
(* The handle: load, and _map_stream_ids called on a loaded handle.        *)
(***************************************************************************)
\* An entry the loader may store for a stream it did not select: none, or,
\* in a file with channel metadata, one in any one attribute for the
\* unselected stream of least raw id.
Unselected(select) ==
    {i \in stream_ids(file) \ select : \A j \in stream_ids(file) \ select : i <= j}

Extras(select, channels) ==
    {[attr |-> 0, id |-> 0]}
    \cup {[attr |-> a, id |-> i] :
             a \in IF channels THEN 1..Len(StreamIndexed) ELSE {}, i \in Unselected(select)}

\* The selections and loader outputs tried: all of them on an unloaded
\* handle, one on a loaded handle, where _load raises before it reads them.
Selections == IF self.loaded THEN {stream_ids(file)} ELSE SUBSET stream_ids(file)

Load ==
    /\ \E select \in Selections, channels \in IF self.loaded THEN {TRUE} ELSE BOOLEAN :
         \E extra \in Extras(select, channels) :
            outcome' = _load(self, file, select, channels, extra, hostname_map)
    /\ self' = load(outcome').self
    /\ ret' = [load(outcome') EXCEPT !.self = ""]
    /\ arg' = None
    /\ UNCHANGED <<file, classifier_vars, normalizer_vars>>

MapStreamIds ==
    /\ self.loaded
    /\ \E data \in Collections :
            /\ arg' = data
            /\ ret' = [op |-> "_map_stream_ids"] @@ _map_stream_ids(self._metadata, data)
    /\ UNCHANGED <<file, self, outcome, classifier_vars, normalizer_vars>>

Init ==
    /\ file \in Files
    /\ self = Unloaded
    /\ outcome = NoOutcome
    /\ arg = None
    /\ ret = NotCalled
    /\ ClassifierIdle
    /\ NormalizerIdle

Next == Load \/ MapStreamIds

Spec == Init /\ [][Next]_vars

(***************************************************************************)
(* Normalisation applied again and again.                                  *)
(***************************************************************************)
NormalizeMetadata ==
    /\ meta_type # <<>>
    /\ passes.metadata < MaxPasses
    /\ meta_type' = normalize_type(meta_type)
    /\ passes' = [passes EXCEPT !.metadata = @ + 1]
    /\ ret' = [op |-> "_parse_metadata", exc |-> "none"]
    /\ UNCHANGED <<channel, classifier_vars, handle_vars>>

ParseChannelMetadata ==
    /\ channel # NoChannel
    /\ passes.channel < MaxPasses
    /\ channel' = _parse_channel_metadata(channel)
    /\ passes' = [passes EXCEPT !.channel = @ + 1]
    /\ ret' = [op |-> "_parse_channel_metadata", exc |-> "none"]
    /\ UNCHANGED <<meta_type, classifier_vars, handle_vars>>

InitNormalizer ==
    /\ \/ meta_type \in RuleTypes /\ channel = NoChannel
       \/ meta_type = <<>> /\ channel \in Channels
    /\ passes = NoPasses
    /\ ret = NotCalled
    /\ ClassifierIdle
    /\ HandleIdle

NextNormalizer == NormalizeMetadata \/ ParseChannelMetadata

SpecNormalizer == InitNormalizer /\ [][NextNormalizer]_vars

(***************************************************************************)
(* Claims about the classifier.                                            *)
(***************************************************************************)
Returned(op) == ret.op = op /\ ret.exc = "none"

SeqToSet(s) == {s[i] : i \in 1..Len(s)}

\* The id of row i before collision suffixing.
BaseId(i) == base_nl_id(df[i], hostname_map).nl_id

EndsInDigit(s) == s # <<>> /\ s[Len(s)] \in SeqToSet(Digits)

PlainDeviceNames(hmap) == \A h \in DOMAIN hmap : ~EndsInDigit(hmap[h])

Collision == \E i, j \in 1..Len(df) : i < j /\ BaseId(i) = BaseId(j)

\* C1 as stated: whatever the DeviceMap, the ids _create_nl_ids returns for N
\* streams with distinct raw ids are N distinct ids.
C1_UniqueForAnyDeviceMap ==
    Returned("_create_nl_ids") => Cardinality(SeqToSet(ret.nl_ids)) = Len(df)

\* C1 amended: with a DeviceMap none of whose device names ends in a digit
\* the returned ids are pairwise distinct, and whatever the DeviceMap the
\* table _parse_metadata returns has pairwise distinct index keys.
C1_UniqueForPlainDeviceNames ==
    /\ (Returned("_create_nl_ids") /\ PlainDeviceNames(hostname_map))
           => Cardinality(SeqToSet(ret.nl_ids)) = Len(df)
    /\ Returned("_parse_metadata")
           => /\ Len(ret.table) = Len(df)
              /\ Cardinality({ret.table[i].nl_id : i \in 1..Len(ret.table)}) = Len(df)

\* Three streams, two of which collide, classified under the shipped map.
C1_Witness ==
    /\ Returned("_create_nl_ids")
    /\ hostname_map = hostname_device_mapper
    /\ Len(df) = 3
    /\ Collision

\* Rows reducing to the base id of row i that have a smaller raw id / that
\* stand before row i in the table.
SmallerRawId(i) ==
    {j \in 1..Len(df) : BaseId(j) = BaseId(i) /\ df[j].stream_id < df[i].stream_id}

EarlierRow(i) == {j \in 1..Len(df) : BaseId(j) = BaseId(i) /\ j < i}

Suffixed(base, k) == IF k = 1 THEN base ELSE base \o s_dash \o str(k)

C2_ClassificationNeverFails ==
    ret.op = "_create_nl_ids" =>
        /\ ret.exc = "none"
        /\ (df[1].type = s_eeg /\ df[1].hostname \notin DOMAIN hostname_map)
               => ret.nl_ids[1] = str(df[1].stream_id)

\* The rules 2-10 of the decision procedure, as predicate and action.
RuleMatches(k, row) ==
    CASE k = 2 -> row.name = s_TimestampStream
      [] k = 3 -> row.name = s_CameraRecordingTime
      [] k = 4 -> row.type = s_marker /\ row.name = s_audio
      [] k = 5 -> startswith(lower(row.name), s_pupil)
      [] k = 6 -> row.type = s_data /\ startswith(row.name, s_Test)
      [] k = 7 -> row.type = s_control
      [] k = 8 -> row.type = s_markers
      [] k = 9 -> startswith(row.name, s_relay)
      [] k = 10 -> TRUE

RuleAction(k, row, hmap) ==
    CASE k = 2 -> s_ts_marker
      [] k = 3 -> s_ts_video
      [] k = 4 -> s_ts_audio
      [] k = 5 -> IF row.type = s_event THEN s_pl \o row.source_id \o s_dash_event
                  ELSE IF row.type = s_gaze THEN s_pl \o row.source_id \o s_dash_gaze
                  ELSE str(row.stream_id)
      [] k = 6 -> IF row.hostname \in reference_hosts THEN s_test_ref
                  ELSE IF row.hostname \in DOMAIN hmap
                      THEN s_test_dash \o hmap[row.hostname]
                  ELSE s_test
      [] k = 7 -> s_test_ctrl
      [] k = 8 -> str(row.stream_id) \o s_dash_markers
      [] k = 9 -> str(row.stream_id) \o s_dash_relay
      [] k = 10 -> str(row.stream_id)

FirstMatch(row) ==
    CHOOSE k \in 2..10 : RuleMatches(k, row) /\ \A j \in 2..(k - 1) : ~RuleMatches(j, row)

Normalized(row) == normalize_row(row) = row

\* C4: a normalized row whose type is not eeg gets the action of the first
\* of the rules 2-10 that matches it, from _create_nl_ids on a normalized
\* table and from _parse_metadata alike.
C4_FirstMatchingRule ==
    /\ (ret.op = "_create_nl_ids" /\ Normalized(df[1]) /\ df[1].type # s_eeg)
           => /\ ret.exc = "none"
              /\ ret.nl_ids[1] = RuleAction(FirstMatch(df[1]), df[1], hostname_map)
    /\ (ret.op = "_parse_metadata" /\ normalize_type(df[1].type) # s_eeg)
           => /\ ret.exc = "none"
              /\ ret.table[1].nl_id =
                     RuleAction(FirstMatch(normalize_row(df[1])),
                                normalize_row(df[1]), hostname_map)

\* A pupil-named stream of type control or markers was classified.
C4_Witness ==
    /\ Returned("_create_nl_ids")
    /\ startswith(lower(df[1].name), s_pupil)
    /\ df[1].type \in {s_control, s_markers}
    /\ ret.nl_ids[1] = str(df[1].stream_id)

(***************************************************************************)
(* Claims about the handle.                                                *)
(***************************************************************************)
\* load returned after a successful self._load and a complete remapping.
LoadReturned == ret.op = "load" /\ ret.exc = "none" /\ ret.caught = "none"

\* The collection holds a raw id that no row of the metadata table has.
Missing(metadata, data) ==
    \E i \in 1..Len(data.items) :
        \A r \in 1..Len(metadata) : Int_(metadata[r].stream_id) # data.items[i].key

AllCanonical(data) ==
    \A i \in 1..Len(data.items) : DOMAIN data.items[i].key = {"str"}

\* C5: a load in which self._load raises NoLoadableStreamsError or
\* XdfAlreadyLoadedError raises nothing, returns self and leaves every
\* attribute of the handle, the six stream-indexed collections among them,
\* as it was before the call.
C5_RecoverableFailureIsNoOp ==
    [][(ret'.op = "load" /\ outcome'.exc \in Recoverable)
           => /\ ret'.exc = "none"
              /\ ret'.value = "self"
              /\ self' = self]_vars

\* load was called again on a handle whose collections are already keyed by
\* canonical ids.
C5_Witness ==
    /\ ret.op = "load"
    /\ ret.caught = "XdfAlreadyLoadedError"
    /\ Len(self._time_stamps.items) >= 2
    /\ \A k \in 1..Len(StreamIndexed) : AllCanonical(self[StreamIndexed[k]])

\* C6: after a successful load every entry of each of the six collections is
\* keyed by an index key of self._metadata, namely the key of the row whose
\* stream_id is the raw id the entry had when self._load stored it, and
\* every stored entry is there under that key.
C6_CollectionsKeyedByCanonicalIds ==
    LoadReturned =>
        \A k \in 1..Len(StreamIndexed) :
            LET before == outcome.self[StreamIndexed[k]]
                after == self[StreamIndexed[k]]
            IN  /\ after.shape = before.shape
                /\ \A i \in 1..Len(after.items) :
                      \E r \in 1..Len(self._metadata), j \in 1..Len(before.items) :
                          /\ after.items[i].key = Str_(self._metadata[r].nl_id)
                          /\ before.items[j].key = Int_(self._metadata[r].stream_id)
                          /\ before.items[j].val = after.items[i].val
                /\ \A j \in 1..Len(before.items) :
                      \E r \in 1..Len(self._metadata), i \in 1..Len(after.items) :
                          /\ before.items[j].key = Int_(self._metadata[r].stream_id)
                          /\ after.items[i].key = Str_(self._metadata[r].nl_id)
                          /\ after.items[i].val = before.items[j].val

\* Three streams with channel metadata were loaded.
C6_Witness ==
    /\ LoadReturned
    /\ Len(self._metadata) = 3
    /\ Len(self._channel_metadata.items) = 3
    /\ Len(self._time_stamps.items) = 3

Ascending(items) ==
    \A i, j \in 1..Len(items) : i < j => ~str_lt(items[j].key.str, items[i].key.str)

\* C7: the list, dict or table _map_stream_ids returns is in ascending
\* order of canonical id, whatever the order of its argument, and so is
\* each of the six collections after a successful load.
C7_SortedByCanonicalId ==
    /\ Returned("_map_stream_ids") => Ascending(ret.data.items)
    /\ LoadReturned => \A k \in 1..Len(StreamIndexed) : Ascending(self[StreamIndexed[k]].items)

\* A dict of two entries came back in the opposite order.
C7_Witness ==
    /\ Returned("_map_stream_ids")
    /\ arg.shape = "dict"
    /\ Len(arg.items) = 2
    /\ ret.data.items[1].val = arg.items[2].val
    /\ ret.data.items[2].val = arg.items[1].val

\* C8: _map_stream_ids raises IndexError when its argument holds a raw id
\* without a row in self._metadata, whatever the shape, and a load whose
\* self._load stored such a collection ends with that IndexError uncaught.
C8_MissingRawIdIsFatal ==
    /\ (ret.op = "_map_stream_ids" /\ Missing(self._metadata, arg))
           => ret.exc = "IndexError"
    /\ (/\ ret.op = "load"
        /\ outcome.exc = "none"
        /\ \E k \in 1..Len(StreamIndexed) :
              Missing(outcome.self._metadata, outcome.self[StreamIndexed[k]]))
           => /\ ret.exc = "IndexError"
              /\ ret.caught = "none"
              /\ ret.value = ""

\* load ended with IndexError at its last remapping: the time stamps hold a
\* raw id of a stream that was not loaded.
C8_Witness ==
    /\ ret.op = "load"
    /\ ret.exc = "IndexError"
    /\ Missing(outcome.self._metadata, outcome.self._time_stamps)
    /\ AllCanonical(self._time_series)

\* C9: when every raw id of the argument has a row in self._metadata,
\* _map_stream_ids returns as many entries as it was given, and a successful
\* load leaves each collection with as many entries as self._load stored.
C9_RemapPreservesCardinality ==
    /\ (ret.op = "_map_stream_ids" /\ ~Missing(self._metadata, arg))
           => /\ ret.exc = "none"
              /\ ret.data.shape = arg.shape
              /\ Len(ret.data.items) = Len(arg.items)
    /\ LoadReturned
           => \A k \in 1..Len(StreamIndexed) :
                 Len(self[StreamIndexed[k]].items) = Len(outcome.self[StreamIndexed[k]].items)

\* A dict of two raw ids, both in the table, was remapped.
C9_Witness ==
    /\ Returned("_map_stream_ids")
    /\ arg.shape = "dict"
    /\ Len(arg.items) = 2
    /\ ~Missing(self._metadata, arg)

(***************************************************************************)
(* Claims about normalisation.                                             *)
(***************************************************************************)
\* C10: once the metadata normalisation has been applied to a type value
\* another application leaves it as it is, and likewise for the channel
\* normalisation of a channel table.
C10_NormalizationIdempotent ==
    [][/\ passes.metadata >= 1 => meta_type' = meta_type
       /\ passes.channel >= 1 => channel' = channel]_vars

\* A channel table without labels was normalised twice: its label was
\* copied from the index and rewritten.
C10_Witness ==
    /\ passes.channel >= 2
    /\ channel.index = "33"
    /\ channel.label = "trigger"
    /\ channel.type = "misc"

====
